---- MODULE Spec2Model ----
(***************************************************************************)
(* Model of the multi-module compilation driver `compile` of               *)
(* src/src/project.rs: registration of the inputs, construction of the     *)
(* dependency graph, topological scheduling, the per-module compile loop   *)
(* and the assembly of the result.                                         *)
(*                                                                         *)
(* Text is modelled as a sequence of tokens ("nested/one" is               *)
(* <<"nested", "/", "one">>), a path as the sequence of its components     *)
(* below the root, each component a text ("one.gleam" is                   *)
(* <<"one", ".", "gleam">>).  Graph node indices are the 1-based positions *)
(* of the nodes in insertion order (petgraph counts from 0).               *)
(***************************************************************************)
EXTENDS Integers, Sequences, FiniteSets, TLC

\* Longest batch of inputs handed to compile.
MaxInputs == 3

(***************************************************************************)
(* Text and path helpers (std::path::PathBuf, str::split, [T]::join)       *)
(***************************************************************************)
Front(s) == SubSeq(s, 1, Len(s) - 1)

Last(s) == s[Len(s)]

RECURSIVE Reverse(_)
Reverse(s) == IF s = <<>> THEN <<>> ELSE Append(Reverse(Tail(s)), Head(s))

\* [T]::join(sep) and Path::to_str for a list of texts: the texts with the
\* separator token between them.
RECURSIVE JoinWith(_, _)
JoinWith(parts, sep) ==
    IF parts = <<>> THEN <<>>
    ELSE IF Len(parts) = 1 THEN parts[1]
    ELSE parts[1] \o <<sep>> \o JoinWith(Tail(parts), sep)

\* str::split(sep): the maximal runs of tokens between separators.
RECURSIVE SplitAcc(_, _, _)
SplitAcc(s, sep, cur) ==
    IF s = <<>> THEN <<cur>>
    ELSE IF Head(s) = sep THEN <<cur>> \o SplitAcc(Tail(s), sep, <<>>)
    ELSE SplitAcc(Tail(s), sep, Append(cur, Head(s)))

Split(s, sep) == SplitAcc(s, sep, <<>>)

\* Path::starts_with
starts_with(path, base) ==
    /\ Len(base) <= Len(path)
    /\ SubSeq(path, 1, Len(base)) = base

\* Path::strip_prefix, defined when starts_with(path, base)
strip_prefix(path, base) == SubSeq(path, Len(base) + 1, Len(path))

\* Path::parent is None for the root and for the empty relative path
has_parent(path) == path # <<>>

parent(path) == Front(path)

\* Path::file_stem: the last component without its extension
file_stem(path) ==
    LET f == Last(path)
    IN  IF Len(f) >= 3 /\ f[Len(f) - 1] = "." THEN SubSeq(f, 1, Len(f) - 2) ELSE f

\* PathBuf::set_extension on the last component
set_extension(path, ext) ==
    Append(Front(path), file_stem(path) \o <<".", ext>>)

EmptyMap == [k \in {} |-> k]

MapInsert(m, k, v) == [x \in DOMAIN m \cup {k} |-> IF x = k THEN v ELSE m[x]]

MapRemove(m, k) == [x \in DOMAIN m \ {k} |-> m[x]]

(***************************************************************************)
(* Input batches                                                           *)
(***************************************************************************)
ModuleOrigin == {"Src", "Test", "Dependency"}

RenderDocs == {"True", "False"}

\* A source text is represented by what the parser and the type checker
\* make of it: whether it parses, the modules it imports (in order of
\* appearance) and whether its body type-checks.
Source(parses, imports, typed) ==
    [parses |-> parses, imports |-> imports, typed |-> typed]

SrcEmpty == Source(TRUE, <<>>, TRUE)

SrcImport(names) == Source(TRUE, names, TRUE)

SrcSyntaxError == Source(FALSE, <<>>, TRUE)

SrcTypeError == Source(TRUE, <<>>, FALSE)

NameOne == <<"one">>

NameTwo == <<"two">>

NameNestedOne == <<"nested", "/", "one">>

NameMissing == <<"missing">>

File(dir, comps) == dir \o comps

SrcDir == << <<"src">> >>

OtherSrcDir == << <<"other">>, <<"src">> >>

RootDir == <<>>

FileOne == << <<"one", ".", "gleam">> >>

FileTwo == << <<"two", ".", "gleam">> >>

FileNestedOne == << <<"nested">>, <<"one", ".", "gleam">> >>

Input(origin, base, file, src) ==
    [source_base_path |-> base, path |-> File(base, file), src |-> src,
     origin |-> origin]

\* The inputs a batch is drawn from.
Inputs ==
    {Input(o, SrcDir, FileOne, SrcImport(<<NameTwo>>)) : o \in ModuleOrigin}
    \cup {Input(o, SrcDir, FileTwo, SrcEmpty) : o \in ModuleOrigin}
    \cup {Input("Src", SrcDir, FileOne, s) :
            s \in {SrcEmpty, SrcImport(<<NameOne>>), SrcSyntaxError}}
    \cup {Input("Src", SrcDir, FileTwo, s) :
            s \in {SrcImport(<<NameOne>>), SrcImport(<<NameNestedOne>>),
                   SrcImport(<<NameMissing>>), SrcTypeError}}
    \cup {Input("Src", SrcDir, FileNestedOne, s) :
            s \in {SrcEmpty, SrcImport(<<NameTwo>>),
                   SrcImport(<<NameOne, NameTwo>>)}}
    \cup {Input("Src", OtherSrcDir, FileOne, SrcEmpty),
          Input("Src", RootDir, FileTwo, SrcEmpty)}

Batches == UNION {[1..n -> Inputs] : n \in 0..MaxInputs}

(***************************************************************************)
(* Collaborators of the driver: parser, AST queries, type checker, code    *)
(* generator (crate::grammar, crate::ast, crate::typ, crate::erl)          *)
(***************************************************************************)
\* ModuleParser::parse(strip_extra(src)): the untyped module of a source
\* that parses; its name is assigned by the driver afterwards.
parses(src) == src.parses

parse(src) ==
    [name |-> <<>>,
     imports |-> [k \in 1..Len(src.imports) |-> [module |-> src.imports[k], meta |-> k]],
     typed |-> src.typed]

\* UntypedModule::name_string: the segments joined with "/"
name_string(module) == JoinWith(module.name, "/")

\* UntypedModule::dependencies: (imported module name, location) pairs
dependencies(module) == module.imports

\* typ::infer_module(module, &modules_type_infos): the possible outcomes.
\* The outcome for a module whose import has no signature in the map is
\* left open.
infer_outcomes(module, type_infos) ==
    IF ~module.typed THEN {"Err"}
    ELSE IF \E k \in DOMAIN module.imports : module.imports[k].module \notin DOMAIN type_infos
         THEN {"Ok", "Err"}
    ELSE {"Ok"}

\* The signature carried by the typed module.
type_info_of(module) == [name |-> module.name]

\* erl::module(module): the target source text
erl_module(module) == <<"-module(">> \o JoinWith(module.name, "@") \o <<").">>

(***************************************************************************)
(* petgraph::Graph and petgraph::algo::toposort                            *)
(***************************************************************************)
GraphNew == [nodes |-> <<>>, edges |-> <<>>]

\* Graph::add_node returns the index of the new node
add_node(g, weight) == [g EXCEPT !.nodes = Append(g.nodes, weight)]

node_index_of_new(g) == Len(g.nodes) + 1

add_edge(g, a, b) == [g EXCEPT !.edges = Append(g.edges, <<a, b>>)]

\* Graph::neighbors(nx): targets of the outgoing edges of nx, the most
\* recently added edge first.
RECURSIVE neighbors_upto(_, _, _)
neighbors_upto(g, nx, k) ==
    IF k = 0 THEN <<>>
    ELSE (IF g.edges[k][1] = nx THEN <<g.edges[k][2]>> ELSE <<>>)
         \o neighbors_upto(g, nx, k - 1)

neighbors(g, nx) == neighbors_upto(g, nx, Len(g.edges))

\* Sources of the incoming edges of nx (Graph::neighbors_directed Incoming)
predecessors(g, nx) == {g.edges[k][1] : k \in {j \in DOMAIN g.edges : g.edges[j][2] = nx}}

\* First pass of toposort: depth-first search with an explicit stack; a node
\* is pushed on finish_stack when it is popped the second time.
RECURSIVE dfs_run(_, _)
dfs_run(g, st) ==
    IF st.cycle \/ st.stack = <<>> THEN st
    ELSE LET nx == Last(st.stack) IN
         IF nx \notin st.discovered
         THEN LET succs == neighbors(g, nx)
                  disc == st.discovered \cup {nx}
              IN  IF \E k \in DOMAIN succs : succs[k] = nx
                  THEN [st EXCEPT !.cycle = TRUE]
                  ELSE dfs_run(g, [st EXCEPT
                           !.discovered = disc,
                           !.stack = st.stack \o SelectSeq(succs, LAMBDA s : s \notin disc)])
         ELSE dfs_run(g, [st EXCEPT
                  !.stack = Front(st.stack),
                  !.finished = st.finished \cup {nx},
                  !.finish_stack = IF nx \in st.finished THEN st.finish_stack
                                   ELSE Append(st.finish_stack, nx)])

RECURSIVE dfs_from_each(_, _, _)
dfs_from_each(g, i, st) ==
    IF st.cycle \/ i > Len(g.nodes) THEN st
    ELSE IF i \in st.discovered THEN dfs_from_each(g, i + 1, st)
    ELSE dfs_from_each(g, i + 1, dfs_run(g, [st EXCEPT !.stack = <<i>>]))

\* Second pass of toposort: walking the candidate order, a node that still
\* has an undiscovered predecessor lies on a cycle.
RECURSIVE order_has_cycle(_, _, _)
order_has_cycle(g, order, k) ==
    IF k > Len(order) THEN FALSE
    ELSE IF predecessors(g, order[k]) \ {order[j] : j \in 1..k} # {} THEN TRUE
    ELSE order_has_cycle(g, order, k + 1)

\* Mutant of toposort: the finish stack is handed out as it is, not
\* reversed.
toposort_unreversed(g) ==
    LET st == dfs_from_each(g, 1,
                  [stack |-> <<>>, discovered |-> {}, finished |-> {},
                   finish_stack |-> <<>>, cycle |-> FALSE])
        order == st.finish_stack
    IN  IF st.cycle THEN [ok |-> FALSE, order |-> <<>>]
        ELSE [ok |-> TRUE, order |-> order]

toposort(g) ==
    LET st == dfs_from_each(g, 1,
                  [stack |-> <<>>, discovered |-> {}, finished |-> {},
                   finish_stack |-> <<>>, cycle |-> FALSE])
        order == Reverse(st.finish_stack)
    IN  IF st.cycle \/ order_has_cycle(g, order, 1)
        THEN [ok |-> FALSE, order |-> <<>>]
        ELSE [ok |-> TRUE, order |-> order]

(***************************************************************************)
(* State of one call of compile(srcs, render_docs)                         *)
(***************************************************************************)
VARIABLES
    inputs,              \* the batch as passed by the caller
    render_docs,         \* the docs flag
    srcs,                \* the inputs the registration loop has not consumed
    pc,                  \* position in compile
    deps_graph,          \* Graph of module names
    indexes,             \* HashMap: module name -> node index
    modules,             \* HashMap: node index -> Module
    values_order,        \* order in which this run's modules.values() iterates
    iter,                \* rest of the edge pass over modules.values()
    order,               \* rest of the topological order
    cur,                 \* locals of the current iteration of the compile loop
    modules_type_infos,  \* HashMap: module name -> ModuleTypeInfo
    compiled_modules,    \* Vec<Out>
    stdout,              \* lines printed
    result               \* value returned (or the panic raised)

vars == <<inputs, render_docs, srcs, pc, deps_graph, indexes, modules,
          values_order, iter, order, cur, modules_type_infos,
          compiled_modules, stdout, result>>

NoResult == [kind |-> "None"]

NoCur == [bound |-> FALSE]

Panic(message) == [kind |-> "Panic", message |-> message]

\* All orders in which a HashMap with key set S may iterate.
IterationOrders(S) ==
    {f \in [1..Cardinality(S) -> S] : \A a, b \in DOMAIN f : a # b => f[a] # f[b]}

Init ==
    /\ inputs \in Batches
    /\ render_docs \in RenderDocs
    /\ srcs = inputs
    /\ pc = "register"
    /\ deps_graph = GraphNew
    /\ indexes = EmptyMap
    /\ modules = EmptyMap
    /\ values_order = <<>>
    /\ iter = <<>>
    /\ order = <<>>
    /\ cur = NoCur
    /\ modules_type_infos = EmptyMap
    /\ compiled_modules = <<>>
    /\ stdout = <<>>
    /\ result = NoResult

Return(value) ==
    /\ result' = value
    /\ pc' = "returned"

Abort(message) ==
    /\ result' = Panic(message)
    /\ pc' = "panicked"

(***************************************************************************)
(* Pass 1: registration (lines 67-116)                                     *)
(***************************************************************************)
\* Lines 74-82: the module name of an input.
name_derivable(source_base_path, path) ==
    /\ starts_with(path, source_base_path)
    /\ has_parent(strip_prefix(path, source_base_path))

derive_name(source_base_path, path) ==
    JoinWith(Append(parent(strip_prefix(path, source_base_path)), file_stem(path)), "/")

\* Mutant of registered: a name is never found to be registered already.
registered_never(name) == FALSE

\* Line 93: indexes.get(&name).and_then(|i| modules.get(i))
registered(name) ==
    /\ name \in DOMAIN indexes
    /\ indexes[name] \in DOMAIN modules

\* Mutant of duplicate_module_error: the two paths change places.
duplicate_module_error_swapped(name, first_path, second_path) ==
    [kind |-> "DuplicateModule", module |-> name, first |-> second_path,
     second |-> first_path]

\* Lines 95-99
duplicate_module_error(name, first_path, second_path) ==
    [kind |-> "DuplicateModule", module |-> name, first |-> first_path,
     second |-> second_path]

\* Lines 85-89
parse_error(path, src) == [kind |-> "Parse", path |-> path, src |-> src]

\* Mutant of module_name_of: the name is kept as one segment.
module_name_unsplit(name) == <<name>>

\* Line 102: the name assigned to the parsed module
module_name_of(name) == Split(name, "/")

\* Mutant of Register: the duplicate check comes before the parse.
Register_duplicate_first ==
    /\ pc = "register"
    /\ srcs # <<>>
    /\ LET input == Head(srcs)
           name == derive_name(input.source_base_path, input.path)
           index == node_index_of_new(deps_graph)
       IN  /\ srcs' = Tail(srcs)
           /\ IF ~name_derivable(input.source_base_path, input.path)
              THEN /\ Abort("unwrap on None")
                   /\ UNCHANGED <<deps_graph, indexes, modules>>
              ELSE IF registered(name)
              THEN /\ Return(duplicate_module_error(name, modules[indexes[name]].path,
                                                     input.path))
                   /\ UNCHANGED <<deps_graph, indexes, modules>>
              ELSE IF ~parses(input.src)
              THEN /\ Return(parse_error(input.path, input.src))
                   /\ UNCHANGED <<deps_graph, indexes, modules>>
              ELSE /\ deps_graph' = add_node(deps_graph, name)
                   /\ indexes' = MapInsert(indexes, name, index)
                   /\ modules' = MapInsert(modules, index,
                          [src |-> input.src, path |-> input.path,
                           module |-> [parse(input.src) EXCEPT !.name = module_name_of(name)],
                           origin |-> input.origin,
                           source_base_path |-> input.source_base_path])
                   /\ UNCHANGED <<pc, result>>
    /\ UNCHANGED <<inputs, render_docs, values_order, iter, order, cur,
                   modules_type_infos, compiled_modules, stdout>>

Register ==
    /\ pc = "register"
    /\ srcs # <<>>
    /\ LET input == Head(srcs)
           name == derive_name(input.source_base_path, input.path)
           index == node_index_of_new(deps_graph)
       IN  /\ srcs' = Tail(srcs)
           /\ IF ~name_derivable(input.source_base_path, input.path)
              THEN /\ Abort("unwrap on None")
                   /\ UNCHANGED <<deps_graph, indexes, modules>>
              ELSE IF ~parses(input.src)
              THEN /\ Return(parse_error(input.path, input.src))
                   /\ UNCHANGED <<deps_graph, indexes, modules>>
              ELSE IF registered(name)
              THEN /\ Return(duplicate_module_error(name, modules[indexes[name]].path,
                                                     input.path))
                   /\ UNCHANGED <<deps_graph, indexes, modules>>
              ELSE /\ deps_graph' = add_node(deps_graph, name)
                   /\ indexes' = MapInsert(indexes, name, index)
                   /\ modules' = MapInsert(modules, index,
                          [src |-> input.src, path |-> input.path,
                           module |-> [parse(input.src) EXCEPT !.name = module_name_of(name)],
                           origin |-> input.origin,
                           source_base_path |-> input.source_base_path])
                   /\ UNCHANGED <<pc, result>>
    /\ UNCHANGED <<inputs, render_docs, values_order, iter, order, cur,
                   modules_type_infos, compiled_modules, stdout>>

(***************************************************************************)
(* Pass 2: edges (lines 119-159)                                           *)
(***************************************************************************)
\* Line 119: the iteration over modules.values() starts; a HashMap iterates
\* in an order that is fixed for the unmodified map but arbitrary.
StartEdges ==
    /\ pc = "register"
    /\ srcs = <<>>
    /\ \E vo \in IterationOrders(DOMAIN modules) :
          /\ values_order' = vo
          /\ iter' = vo
    /\ pc' = "edges"
    /\ UNCHANGED <<inputs, render_docs, srcs, deps_graph, indexes, modules, order,
                   cur, modules_type_infos, compiled_modules, stdout, result>>

\* Line 137: modules.values().map(|m| m.module.name_string()).collect()
known_modules == [k \in DOMAIN values_order |-> name_string(modules[values_order[k]].module)]

\* Mutant of src_importing_test: the origin check never fires.
src_importing_test_never(importer_origin, dep_origin) == FALSE

\* Mutant of src_importing_test: every importer outside the tests is
\* refused a Test module.
src_importing_test_strict(importer_origin, dep_origin) ==
    importer_origin # "Test" /\ dep_origin = "Test"

\* Lines 141-146
src_importing_test(importer_origin, dep_origin) ==
    importer_origin = "Src" /\ dep_origin = "Test"

\* Mutant of unknown_import_error: importer and import change places.
unknown_import_error_swapped(module_name, dep, src, path, meta) ==
    [kind |-> "UnknownImport", module |-> dep, import |-> module_name,
     src |-> src, path |-> path, modules |-> known_modules, meta |-> meta]

\* Lines 132-139
unknown_import_error(module_name, dep, src, path, meta) ==
    [kind |-> "UnknownImport", module |-> module_name, import |-> dep,
     src |-> src, path |-> path, modules |-> known_modules, meta |-> meta]

\* Lines 148-154
src_importing_test_error(module_name, dep, src, path, meta) ==
    [kind |-> "SrcImportingTest", path |-> path, src |-> src, meta |-> meta,
     src_module |-> module_name, test_module |-> dep]

\* Mutant of add_dep_edge: the edge points from the importer to the import.
add_dep_edge_reversed(g, dep_index, module_index) == add_edge(g, module_index, dep_index)

\* Mutant of add_dep_edge: an import of the module itself adds no edge.
add_dep_edge_skip_self(g, dep_index, module_index) ==
    IF dep_index = module_index THEN g ELSE add_edge(g, dep_index, module_index)

\* Mutant of add_dep_edge: only an import of a module registered earlier
\* adds an edge.
add_dep_edge_earlier_only(g, dep_index, module_index) ==
    IF dep_index < module_index THEN add_edge(g, dep_index, module_index) ELSE g

\* Line 157: deps_graph.add_edge(dep_index, module_index, ())
add_dep_edge(g, dep_index, module_index) == add_edge(g, dep_index, module_index)

\* Lines 131-158: the imports of one module, in order.
RECURSIVE register_deps(_, _, _, _, _, _, _)
register_deps(deps, module_name, module_index, module, src, path, g) ==
    IF deps = <<>> THEN [status |-> "ok", value |-> NoResult, graph |-> g]
    ELSE LET dep == Head(deps).module
             meta == Head(deps).meta
         IN  IF dep \notin DOMAIN indexes
             THEN [status |-> "return",
                   value |-> unknown_import_error(module_name, dep, src, path, meta),
                   graph |-> g]
             ELSE IF indexes[dep] \notin DOMAIN modules
             THEN [status |-> "panic",
                   value |-> Panic("Unable to find module for dep index"),
                   graph |-> g]
             ELSE IF src_importing_test(module.origin, modules[indexes[dep]].origin)
             THEN [status |-> "return",
                   value |-> src_importing_test_error(module_name, dep, src, path, meta),
                   graph |-> g]
             ELSE register_deps(Tail(deps), module_name, module_index, module, src,
                                path, add_dep_edge(g, indexes[dep], module_index))

Edges ==
    /\ pc = "edges"
    /\ iter # <<>>
    /\ LET m == modules[Head(iter)]
           module_name == name_string(m.module)
       IN  /\ iter' = Tail(iter)
           /\ IF module_name \notin DOMAIN indexes
              THEN /\ Abort("Unable to find module index")
                   /\ UNCHANGED deps_graph
              ELSE IF indexes[module_name] \notin DOMAIN modules
              THEN /\ Abort("Unable to find module for index")
                   /\ UNCHANGED deps_graph
              ELSE LET r == register_deps(dependencies(m.module), module_name,
                                          indexes[module_name],
                                          modules[indexes[module_name]],
                                          m.src, m.path, deps_graph)
                   IN  /\ deps_graph' = r.graph
                       /\ IF r.status = "ok" THEN UNCHANGED <<pc, result>>
                          ELSE IF r.status = "return" THEN Return(r.value)
                          ELSE Abort(r.value.message)
    /\ UNCHANGED <<inputs, render_docs, srcs, indexes, modules, values_order, order,
                   cur, modules_type_infos, compiled_modules, stdout>>

(***************************************************************************)
(* Scheduling (lines 161-174)                                              *)
(***************************************************************************)
Schedule ==
    /\ pc = "edges"
    /\ iter = <<>>
    /\ LET sorted == toposort(deps_graph)
       IN  IF sorted.ok
           THEN /\ order' = sorted.order
                /\ pc' = "loop"
                /\ UNCHANGED result
           ELSE /\ Return([kind |-> "DependencyCycle"])
                /\ UNCHANGED order
    /\ modules_type_infos' = EmptyMap
    /\ compiled_modules' = <<>>
    /\ UNCHANGED <<inputs, render_docs, srcs, deps_graph, indexes, modules,
                   values_order, iter, cur, stdout>>

(***************************************************************************)
(* The compile loop (lines 171-221)                                        *)
(***************************************************************************)
\* Mutant of Take: the module record is read from the table and left there.
Take_keep ==
    /\ pc = "loop"
    /\ order # <<>>
    /\ LET i == Head(order)
       IN  /\ order' = Tail(order)
           /\ IF i \notin DOMAIN modules
              THEN /\ Abort("Unknown graph index")
                   /\ UNCHANGED <<modules, cur>>
              ELSE /\ modules' = modules
                   /\ cur' = [bound |-> TRUE,
                              index |-> i,
                              src |-> modules[i].src,
                              path |-> modules[i].path,
                              module |-> modules[i].module,
                              origin |-> modules[i].origin,
                              source_base_path |-> modules[i].source_base_path,
                              name |-> modules[i].module.name,
                              name_string |-> name_string(modules[i].module),
                              type_info |-> NoResult,
                              erl_path |-> <<>>]
                   /\ pc' = "announce"
                   /\ UNCHANGED result
    /\ UNCHANGED <<inputs, render_docs, srcs, deps_graph, indexes, values_order,
                   iter, modules_type_infos, compiled_modules, stdout>>

\* Lines 175-183: the module record is moved out of the table.
Take ==
    /\ pc = "loop"
    /\ order # <<>>
    /\ LET i == Head(order)
       IN  /\ order' = Tail(order)
           /\ IF i \notin DOMAIN modules
              THEN /\ Abort("Unknown graph index")
                   /\ UNCHANGED <<modules, cur>>
              ELSE /\ modules' = MapRemove(modules, i)
                   /\ cur' = [bound |-> TRUE,
                              index |-> i,
                              src |-> modules[i].src,
                              path |-> modules[i].path,
                              module |-> modules[i].module,
                              origin |-> modules[i].origin,
                              source_base_path |-> modules[i].source_base_path,
                              name |-> modules[i].module.name,
                              name_string |-> name_string(modules[i].module),
                              type_info |-> NoResult,
                              erl_path |-> <<>>]
                   /\ pc' = "announce"
                   /\ UNCHANGED result
    /\ UNCHANGED <<inputs, render_docs, srcs, deps_graph, indexes, values_order,
                   iter, modules_type_infos, compiled_modules, stdout>>

\* Mutant of Announce: the line names the target module.
Announce_target_name ==
    /\ pc = "announce"
    /\ stdout' = Append(stdout, <<"Compiling ">> \o JoinWith(cur.name, "@"))
    /\ pc' = "infer"
    /\ UNCHANGED <<inputs, render_docs, srcs, deps_graph, indexes, modules,
                   values_order, iter, order, cur, modules_type_infos,
                   compiled_modules, result>>

\* Line 185
Announce ==
    /\ pc = "announce"
    /\ stdout' = Append(stdout, <<"Compiling ">> \o cur.name_string)
    /\ pc' = "infer"
    /\ UNCHANGED <<inputs, render_docs, srcs, deps_graph, indexes, modules,
                   values_order, iter, order, cur, modules_type_infos,
                   compiled_modules, result>>

\* ModuleOrigin::dir_name (lines 39-44)
dir_name(origin) == IF origin = "Test" THEN <<"test">> ELSE <<"src">>

\* Mutant of gen_dir: the generated tree is put inside the source base
\* directory.
gen_dir_in_base(source_base_path) == Append(source_base_path, <<"gen">>)

\* Line 191
gen_dir(source_base_path) == Append(parent(source_base_path), <<"gen">>)

\* Mutant of erl_path: the target source is named after the last segment of
\* the module name.
erl_path_last_segment(source_base_path, origin, name) ==
    gen_dir(source_base_path)
        \o <<dir_name(origin), Last(name) \o <<".", "erl">> >>

\* Lines 192-194
erl_path(source_base_path, origin, name) ==
    gen_dir(source_base_path)
        \o <<dir_name(origin), JoinWith(name, "@") \o <<".", "erl">> >>

\* Line 189
type_error(path, src) == [kind |-> "Type", path |-> path, src |-> src]

\* Mutant of Infer: a module that fails the type check is skipped and the
\* loop goes on with the next one.
Infer_skip_on_error ==
    /\ pc = "infer"
    /\ \E outcome \in infer_outcomes(cur.module, modules_type_infos) :
          IF outcome = "Err"
          THEN /\ cur' = NoCur
               /\ pc' = "loop"
               /\ UNCHANGED result
          ELSE IF ~has_parent(cur.source_base_path)
          THEN /\ Abort("unwrap on None")
               /\ UNCHANGED cur
          ELSE /\ cur' = [cur EXCEPT
                              !.type_info = type_info_of(cur.module),
                              !.erl_path = erl_path(cur.source_base_path, cur.origin,
                                                    cur.module.name)]
               /\ pc' = "record"
               /\ UNCHANGED result
    /\ UNCHANGED <<inputs, render_docs, srcs, deps_graph, indexes, modules,
                   values_order, iter, order, modules_type_infos,
                   compiled_modules, stdout>>

\* Mutant of Infer: the outcome of the type check is ignored and the
\* signature of the module is recorded in any case.
Infer_records_failure ==
    /\ pc = "infer"
    /\ IF ~has_parent(cur.source_base_path)
       THEN /\ Abort("unwrap on None")
            /\ UNCHANGED cur
       ELSE /\ cur' = [cur EXCEPT
                           !.type_info = type_info_of(cur.module),
                           !.erl_path = erl_path(cur.source_base_path, cur.origin,
                                                 cur.module.name)]
            /\ pc' = "record"
            /\ UNCHANGED result
    /\ UNCHANGED <<inputs, render_docs, srcs, deps_graph, indexes, modules,
                   values_order, iter, order, modules_type_infos,
                   compiled_modules, stdout>>

\* Lines 188-194: type check, then the path of the target source.
Infer ==
    /\ pc = "infer"
    /\ \E outcome \in infer_outcomes(cur.module, modules_type_infos) :
          IF outcome = "Err"
          THEN /\ Return(type_error(cur.path, cur.src))
               /\ UNCHANGED cur
          ELSE IF ~has_parent(cur.source_base_path)
          THEN /\ Abort("unwrap on None")
               /\ UNCHANGED cur
          ELSE /\ cur' = [cur EXCEPT
                              !.type_info = type_info_of(cur.module),
                              !.erl_path = erl_path(cur.source_base_path, cur.origin,
                                                    cur.module.name)]
               /\ pc' = "record"
               /\ UNCHANGED result
    /\ UNCHANGED <<inputs, render_docs, srcs, deps_graph, indexes, modules,
                   values_order, iter, order, modules_type_infos,
                   compiled_modules, stdout>>

\* Mutant of type_info_key: the signature is keyed by the target module name.
type_info_key_erl(c) == JoinWith(c.name, "@")

\* Line 197: the key under which the signature is recorded
type_info_key(c) == c.name_string

\* Mutant of RecordTypeInfo: the signature goes into a fresh map.
RecordTypeInfo_fresh_map ==
    /\ pc = "record"
    /\ modules_type_infos' = MapInsert(EmptyMap, type_info_key(cur), cur.type_info)
    /\ pc' = "emit"
    /\ UNCHANGED <<inputs, render_docs, srcs, deps_graph, indexes, modules,
                   values_order, iter, order, cur, compiled_modules, stdout, result>>

\* Line 197
RecordTypeInfo ==
    /\ pc = "record"
    /\ modules_type_infos' = MapInsert(modules_type_infos, type_info_key(cur), cur.type_info)
    /\ pc' = "emit"
    /\ UNCHANGED <<inputs, render_docs, srcs, deps_graph, indexes, modules,
                   values_order, iter, order, cur, compiled_modules, stdout, result>>

\* Mutant of renders_docs: docs for every origin but Test.
renders_docs_not_test(origin, docs) == origin # "Test" /\ docs = "True"

\* Line 205
renders_docs(origin, docs) == origin = "Src" /\ docs = "True"

\* Mutant of docs_path: the docs file is named like the target source, with
\* the segments flattened into one file name.
docs_path_flat(source_base_path, name) ==
    Append(gen_dir(source_base_path), <<"docs">>)
        \o << JoinWith(name, "@") \o <<".", "md">> >>

\* Lines 206-209
docs_path(source_base_path, name) ==
    set_extension(Append(gen_dir(source_base_path), <<"docs">>) \o name, "md")

\* Mutant of output_files: the docs file comes first.
output_files_docs_first(c, docs) ==
    (IF renders_docs(c.origin, docs)
     THEN <<[path |-> docs_path(c.source_base_path, c.name),
             contents |-> <<"hey look some docs">>]>>
     ELSE <<>>)
    \o <<[path |-> c.erl_path, contents |-> erl_module(c.module)]>>

\* Lines 202-212
output_files(c, docs) ==
    <<[path |-> c.erl_path, contents |-> erl_module(c.module)]>>
    \o (IF renders_docs(c.origin, docs)
        THEN <<[path |-> docs_path(c.source_base_path, c.name),
                contents |-> <<"hey look some docs">>]>>
        ELSE <<>>)

\* Mutant of push_output: the record is put in front of the list.
push_output_front(outs, out) == <<out>> \o outs

\* Lines 215-220: compiled_modules.push(out)
push_output(outs, out) == Append(outs, out)

\* Lines 200-220
Emit ==
    /\ pc = "emit"
    /\ compiled_modules' = push_output(compiled_modules,
           [name |-> cur.name, name_string |-> cur.name_string,
            origin |-> cur.origin, files |-> output_files(cur, render_docs)])
    /\ cur' = NoCur
    /\ pc' = "loop"
    /\ UNCHANGED <<inputs, render_docs, srcs, deps_graph, indexes, modules,
                   values_order, iter, order, modules_type_infos, stdout, result>>

(***************************************************************************)
(* Output assembly (lines 223-233)                                         *)
(***************************************************************************)
\* Mutant of assemble: each record is put in front of the records
\* assembled so far.
RECURSIVE assemble_prepend(_, _, _)
assemble_prepend(outs, infos, done) ==
    IF outs = <<>> THEN [ok |-> TRUE, value |-> done, infos |-> infos]
    ELSE LET out == Head(outs)
         IN  IF out.name_string \notin DOMAIN infos
             THEN [ok |-> FALSE, value |-> done, infos |-> infos]
             ELSE assemble_prepend(Tail(outs), MapRemove(infos, out.name_string),
                                   <<[name |-> out.name, files |-> out.files,
                                      origin |-> out.origin,
                                      type_info |-> infos[out.name_string]]>> \o done)

\* Each record takes its signature out of the map; a missing key panics.
RECURSIVE assemble(_, _, _)
assemble(outs, infos, done) ==
    IF outs = <<>> THEN [ok |-> TRUE, value |-> done, infos |-> infos]
    ELSE LET out == Head(outs)
         IN  IF out.name_string \notin DOMAIN infos
             THEN [ok |-> FALSE, value |-> done, infos |-> infos]
             ELSE assemble(Tail(outs), MapRemove(infos, out.name_string),
                           Append(done, [name |-> out.name, files |-> out.files,
                                         origin |-> out.origin,
                                         type_info |-> infos[out.name_string]]))

Assemble ==
    /\ pc = "loop"
    /\ order = <<>>
    /\ LET r == assemble(compiled_modules, modules_type_infos, <<>>)
       IN  /\ modules_type_infos' = r.infos
           /\ IF r.ok THEN Return([kind |-> "Ok", value |-> r.value])
              ELSE Abort("merging module type info")
    /\ UNCHANGED <<inputs, render_docs, srcs, deps_graph, indexes, modules,
                   values_order, iter, order, cur, compiled_modules, stdout>>

Next ==
    \/ Register
    \/ StartEdges
    \/ Edges
    \/ Schedule
    \/ Take
    \/ Announce
    \/ Infer
    \/ RecordTypeInfo
    \/ Emit
    \/ Assemble

Spec == Init /\ [][Next]_vars

(***************************************************************************)
(* Vocabulary of the properties: the batch as the caller sees it           *)
(***************************************************************************)
InputIds == DOMAIN inputs

InputName(k) == derive_name(inputs[k].source_base_path, inputs[k].path)

InputImports(k) == {inputs[k].src.imports[j] : j \in DOMAIN inputs[k].src.imports}

\* b imports a
Imports(b, a) == InputName(a) \in InputImports(b)

AllParse == \A k \in InputIds : inputs[k].src.parses

UniqueNames == \A a, b \in InputIds : a # b => InputName(a) # InputName(b)

AllResolve == \A k \in InputIds : InputImports(k) \subseteq {InputName(j) : j \in InputIds}

SomeSrcImportsTest ==
    \E a, b \in InputIds :
        inputs[a].origin = "Src" /\ inputs[b].origin = "Test" /\ Imports(a, b)

\* The inputs reachable from the inputs in S along imports, S included.
RECURSIVE ImportClosure(_)
ImportClosure(S) ==
    LET T == S \cup {a \in InputIds : \E b \in S : Imports(b, a)}
    IN  IF T = S THEN S ELSE ImportClosure(T)

\* The inputs k depends on, directly or transitively.
DependsOn(k) == ImportClosure({a \in InputIds : Imports(k, a)})

ImportCycle == \E k \in InputIds : k \in DependsOn(k)

ReturnedOk == pc = "returned" /\ result.kind = "Ok"

ResultName(k) == JoinWith(result.value[k].name, "/")

\* Names of the modules whose signature is recorded.
RecordedNames == DOMAIN modules_type_infos

CompiledNames == {compiled_modules[k].name_string : k \in DOMAIN compiled_modules}

\* The input the compile loop is working on.
CurInput == CHOOSE k \in InputIds : InputName(k) = cur.name_string

(***************************************************************************)
(* Properties                                                              *)
(***************************************************************************)
\* C1 (order correctness): whenever compile returns Ok, for all modules A
\* and B of the batch such that B imports A, the record of A stands at a
\* strictly smaller index of the result than the record of B.
C1_OrderCorrectness ==
    ReturnedOk =>
        \A a, b \in InputIds :
            Imports(b, a) =>
                \E i, j \in DOMAIN result.value :
                    /\ i < j
                    /\ ResultName(i) = InputName(a)
                    /\ ResultName(j) = InputName(b)

\* Witness of C1: an Ok result of three modules forming an import chain.
C1_Witness ==
    /\ ReturnedOk
    /\ \E a, b, c \in InputIds :
          /\ a # b /\ b # c /\ a # c
          /\ Imports(c, b) /\ Imports(b, a)

\* C2 (signature presence): when infer_module is called for a module, the
\* signature map holds, under the name of every module it imports, the
\* signature of that module, which was announced and emitted earlier in the
\* batch.
C2_SignaturePresence ==
    pc = "infer" =>
        \A k \in DOMAIN cur.module.imports :
            LET dep == cur.module.imports[k].module
            IN  /\ dep \in RecordedNames
                /\ JoinWith(modules_type_infos[dep].name, "/") = dep
                /\ dep \in CompiledNames
                /\ \E l \in DOMAIN stdout : stdout[l] = <<"Compiling ">> \o dep

\* Witness of C2: the type check of a module that imports a nested module.
C2_Witness ==
    /\ pc = "infer"
    /\ \E k \in DOMAIN cur.module.imports : cur.module.imports[k].module = NameNestedOne

\* C3 as stated (signature availability): during the type check of M the
\* signature map holds exactly the modules reachable from M along imports.
C3_Original ==
    pc = "infer" =>
        RecordedNames = {InputName(a) : a \in DependsOn(CurInput)}

\* C3 as amended: during the type check of M the signature map holds exactly
\* the modules compiled before M in the topological walk; every module
\* reachable from M along imports is among them, and modules M does not
\* depend on may be among them too.
C3_SignatureAvailability ==
    pc = "infer" =>
        /\ RecordedNames = CompiledNames
        /\ Len(compiled_modules) = Len(stdout) - 1
        /\ Cardinality(RecordedNames) = Len(compiled_modules)
        /\ {InputName(a) : a \in DependsOn(CurInput)} \subseteq RecordedNames
        /\ cur.name_string \notin RecordedNames

\* Witness of C3: the type check of a module that has a dependency while the
\* map also holds a module it does not depend on.
C3_Witness ==
    /\ pc = "infer"
    /\ DependsOn(CurInput) # {}
    /\ RecordedNames \ {InputName(a) : a \in DependsOn(CurInput)} # {}

ErrorKinds ==
    {"Parse", "DuplicateModule", "UnknownImport", "SrcImportingTest",
     "DependencyCycle", "Type"}

InputOfName(n) == CHOOSE k \in InputIds : InputName(k) = n

\* C4 (batch atomicity): compile returns either a single error and no
\* Compiled record, or Ok with exactly one Compiled record per input: as
\* many records as inputs, with pairwise distinct names that are exactly the
\* names derived from the inputs, each record carrying the name segments
\* and the origin of its input; nothing is handed to the caller before the
\* return; the empty batch returns Ok of the empty list.
C4_BatchAtomicity ==
    /\ pc = "returned" =>
          \/ /\ result.kind \in ErrorKinds
             /\ "value" \notin DOMAIN result
          \/ /\ result.kind = "Ok"
             /\ Len(result.value) = Len(inputs)
             /\ \A i, j \in DOMAIN result.value : i # j => ResultName(i) # ResultName(j)
             /\ {ResultName(i) : i \in DOMAIN result.value} = {InputName(k) : k \in InputIds}
             /\ \A i \in DOMAIN result.value :
                   /\ result.value[i].name = Split(ResultName(i), "/")
                   /\ result.value[i].origin = inputs[InputOfName(ResultName(i))].origin
    /\ pc \notin {"returned", "panicked"} => result = NoResult
    /\ inputs = <<>> =>
          /\ pc # "panicked"
          /\ pc = "returned" => result = [kind |-> "Ok", value |-> <<>>]

\* Witness of C4: an error is returned after a module of the batch was
\* already emitted.
C4_Witness ==
    /\ pc = "returned"
    /\ result.kind = "Type"
    /\ compiled_modules # <<>>

\* The names derived from the inputs of a batch, in input order.
BatchNames(batch) ==
    [k \in DOMAIN batch |-> derive_name(batch[k].source_base_path, batch[k].path)]

RepeatsAt(names, j) == \E i \in 1..(j - 1) : names[i] = names[j]

HasRepeat(batch) ==
    LET names == BatchNames(batch) IN \E j \in DOMAIN batch : RepeatsAt(names, j)

\* The first input whose name repeats the name of an earlier input.
FirstRepeat(batch) ==
    LET names == BatchNames(batch)
    IN  CHOOSE j \in DOMAIN batch :
            /\ RepeatsAt(names, j)
            /\ \A l \in 1..(j - 1) : ~RepeatsAt(names, l)

\* The earlier input whose name input j repeats.
RepeatedBy(batch, j) ==
    LET names == BatchNames(batch) IN CHOOSE i \in 1..(j - 1) : names[i] = names[j]

SwapInputs(batch, i, j) ==
    [k \in DOMAIN batch |-> IF k = i THEN batch[j] ELSE IF k = j THEN batch[i] ELSE batch[k]]

ExpectedDuplicate(batch) ==
    LET j == FirstRepeat(batch)
        i == RepeatedBy(batch, j)
    IN  [kind |-> "DuplicateModule",
         module |-> derive_name(batch[j].source_base_path, batch[j].path),
         first |-> batch[i].path,
         second |-> batch[j].path]

\* C5 as stated (duplicate modules): for any two inputs that derive the
\* same name, if every input up to and including the later one parses,
\* compile returns DuplicateModule naming the earlier as first and the later
\* as second.
C5_Original ==
    pc = "returned" =>
        \A i, j \in InputIds :
            (/\ i < j
             /\ InputName(i) = InputName(j)
             /\ \A k \in 1..j : inputs[k].src.parses)
            => result = [kind |-> "DuplicateModule", module |-> InputName(j),
                         first |-> inputs[i].path, second |-> inputs[j].path]

\* C5 as amended: if some input repeats the name of an earlier input and
\* every input up to and including the first such input parses, compile
\* returns DuplicateModule whose module is that name, whose second is the
\* path of that first repeating input and whose first is the path of the
\* earlier input with the same name, whatever their origins and base paths;
\* for the batch with these two inputs swapped the expected error has first
\* and second swapped.
C5_DuplicateModule ==
    (pc = "returned" /\ HasRepeat(inputs)) =>
        LET j == FirstRepeat(inputs)
            i == RepeatedBy(inputs, j)
            swapped == SwapInputs(inputs, i, j)
            expected == ExpectedDuplicate(swapped)
        IN  (\A k \in 1..j : inputs[k].src.parses) =>
                /\ result = ExpectedDuplicate(inputs)
                /\ result.module = InputName(i)
                /\ result.first = inputs[i].path
                /\ result.second = inputs[j].path
                /\ Len(swapped) = Len(inputs)
                /\ \A k \in DOMAIN swapped : swapped[k] \in Inputs
                /\ expected.first = result.second
                /\ expected.second = result.first

\* Witness of C5: a duplicate across two base paths, reported in the order
\* "other base first".
C5_Witness ==
    /\ pc = "returned"
    /\ result.kind = "DuplicateModule"
    /\ result.first = File(OtherSrcDir, FileOne)
    /\ result.second = File(SrcDir, FileOne)
    /\ Len(inputs) = 3

\* C6 (unknown imports): UnknownImport is returned only for a module of the
\* batch and an import it declares that no input of the batch derives, with
\* that module's path and source; its modules field lists the name of every
\* module of the batch exactly once; and a batch that passes registration
\* and holds such an import never returns Ok.
C6_UnknownImport ==
    /\ (pc = "returned" /\ result.kind = "UnknownImport") =>
          /\ \E k \in InputIds :
                /\ InputName(k) = result.module
                /\ result.import \in InputImports(k)
                /\ result.path = inputs[k].path
                /\ result.src = inputs[k].src
                /\ inputs[k].src.imports[result.meta] = result.import
          /\ \A j \in InputIds : InputName(j) # result.import
          /\ Len(result.modules) = Len(inputs)
          /\ \A j \in InputIds :
                Cardinality({l \in DOMAIN result.modules : result.modules[l] = InputName(j)}) = 1
    /\ (pc = "returned" /\ result.kind \notin {"UnknownImport", "SrcImportingTest"}) =>
          ~(AllParse /\ UniqueNames /\ ~AllResolve)
    /\ pc \notin {"register", "edges", "returned"} =>
          ~(AllParse /\ UniqueNames /\ ~AllResolve)

\* Witness of C6: UnknownImport returned for a batch of three modules.
C6_Witness ==
    /\ pc = "returned"
    /\ result.kind = "UnknownImport"
    /\ Len(result.modules) = 3

\* Registration succeeded for every input and every import names a module.
Resolvable == AllParse /\ UniqueNames /\ AllResolve

\* C7 (Src importing Test is rejected): if every input parses, names are
\* unique, every import resolves and some Src module imports a Test module,
\* compile returns SrcImportingTest for a Src importer and a Test module it
\* imports, without scheduling anything; no edge from a Test node to a Src
\* node is ever in the graph; no Ok result holds a Src module that imports a
\* Test module.
C7_SrcImportingTestRejected ==
    /\ pc \notin {"register", "edges", "returned"} =>
          ~(Resolvable /\ SomeSrcImportsTest)
    /\ (pc = "returned" /\ Resolvable /\ SomeSrcImportsTest) =>
                /\ result.kind = "SrcImportingTest"
                /\ \E a, b \in InputIds :
                      /\ result.src_module = InputName(a)
                      /\ result.test_module = InputName(b)
                      /\ inputs[a].origin = "Src"
                      /\ inputs[b].origin = "Test"
                      /\ Imports(a, b)
                      /\ result.path = inputs[a].path
                      /\ result.src = inputs[a].src
    /\ \A k \in DOMAIN deps_graph.edges :
          LET e == deps_graph.edges[k]
          IN  /\ deps_graph.nodes[e[1]] = InputName(e[1])
              /\ deps_graph.nodes[e[2]] = InputName(e[2])
              /\ ~(inputs[e[1]].origin = "Test" /\ inputs[e[2]].origin = "Src")
    /\ ReturnedOk => ~SomeSrcImportsTest

\* Witness of C7: SrcImportingTest returned after an edge was already added
\* for another, legal import.
C7_Witness ==
    /\ pc = "returned"
    /\ result.kind = "SrcImportingTest"
    /\ deps_graph.edges # <<>>

\* C8 (imports are otherwise unrestricted): SrcImportingTest is returned
\* only for a Src importer and a Test import, never for an import whose
\* importer is Test or Dependency or whose imported module is Src or
\* Dependency; a resolvable batch in which no Src module imports a Test
\* module never returns SrcImportingTest, and once its edge pass is over the
\* graph holds the edge of every import, whatever the origins.
C8_ImportsOtherwiseLegal ==
    /\ (pc = "returned" /\ result.kind = "SrcImportingTest") =>
          \A a, b \in InputIds :
              (/\ result.src_module = InputName(a)
               /\ result.test_module = InputName(b))
              => (inputs[a].origin = "Src" /\ inputs[b].origin = "Test")
    /\ (pc = "returned" /\ result.kind \notin {"DependencyCycle", "Type", "Ok"}) =>
          ~(Resolvable /\ ~SomeSrcImportsTest)
    /\ (pc \notin {"register", "edges"} /\ Resolvable /\ ~SomeSrcImportsTest) =>
          \A a, b \in InputIds :
              Imports(a, b) =>
                  \E k \in DOMAIN deps_graph.edges : deps_graph.edges[k] = <<b, a>>

\* Witness of C8: an Ok result in which a Dependency module imports a Test
\* module.
C8_Witness ==
    /\ ReturnedOk
    /\ \E a, b \in InputIds :
          /\ inputs[a].origin = "Dependency"
          /\ inputs[b].origin = "Test"
          /\ Imports(a, b)

\* C9 (cycle detection): for a resolvable batch in which no Src module
\* imports a Test module, compile returns DependencyCycle if and only if the
\* import relation has a cycle (a self import included); a batch with a
\* cycle never reaches the compile loop; with DependencyCycle nothing was
\* type-checked, announced or emitted.
C9_CycleDetection ==
    /\ (pc = "returned" /\ Resolvable /\ ~SomeSrcImportsTest) =>
          (result.kind = "DependencyCycle" <=> ImportCycle)
    /\ pc \notin {"register", "edges", "returned"} =>
          ~(Resolvable /\ ~SomeSrcImportsTest /\ ImportCycle)
    /\ (pc = "returned" /\ result.kind = "DependencyCycle") =>
          /\ Resolvable /\ ~SomeSrcImportsTest /\ ImportCycle
          /\ stdout = <<>>
          /\ compiled_modules = <<>>
          /\ modules_type_infos = EmptyMap
          /\ cur = NoCur
          /\ DOMAIN modules = InputIds

\* Witness of C9: DependencyCycle for three modules that all lie on a cycle.
C9_Witness ==
    /\ pc = "returned"
    /\ result.kind = "DependencyCycle"
    /\ Len(inputs) = 3
    /\ \A k \in InputIds : k \in DependsOn(k) /\ ~Imports(k, k)

\* C10 (origin-docs law): in every Ok result a record has exactly two files
\* when its origin is Src and render_docs is True and exactly one file
\* otherwise; the first file is the target source (.erl), the second, if
\* any, the documentation (.md).
C10_OriginDocsLaw ==
    ReturnedOk =>
        \A k \in DOMAIN result.value :
            LET r == result.value[k]
                erl == r.files[1]
            IN  /\ r.origin = inputs[InputOfName(ResultName(k))].origin
                /\ Len(r.files) = (IF r.origin = "Src" /\ render_docs = "True" THEN 2 ELSE 1)
                /\ SubSeq(Last(erl.path), Len(Last(erl.path)) - 1, Len(Last(erl.path)))
                     = <<".", "erl">>
                /\ Head(erl.contents) = "-module("
                /\ Len(r.files) = 2 =>
                      /\ SubSeq(Last(r.files[2].path), Len(Last(r.files[2].path)) - 1,
                                Len(Last(r.files[2].path))) = <<".", "md">>
                      /\ r.files[2].contents = <<"hey look some docs">>

\* Witness of C10: an Ok result with docs requested that holds a Src record
\* and a record of another origin.
C10_Witness ==
    /\ ReturnedOk
    /\ render_docs = "True"
    /\ \E i, j \in DOMAIN result.value :
          /\ result.value[i].origin = "Src" /\ Len(result.value[i].files) = 2
          /\ result.value[j].origin = "Dependency" /\ Len(result.value[j].files) = 1

(***************************************************************************)
(* Vocabulary of the output paths: what the caller expects to find on disk *)
(***************************************************************************)
\* The input a returned record was compiled from.
RecordInput(k) == CHOOSE i \in InputIds : InputName(i) = ResultName(k)

\* The directory that holds the source base directory.
BaseParent(k) == Front(inputs[RecordInput(k)].source_base_path)

OriginDir(k) ==
    IF inputs[RecordInput(k)].origin = "Test" THEN <<"test">> ELSE <<"src">>

\* C11 (path encoding): in every returned Ok result, the path of the first
\* file of each record is parent(source_base_path)/gen/<dir>/<name>.erl,
\* where source_base_path is that of the input the record was compiled
\* from, <dir> is "test" for a Test input and "src" for a Src or Dependency
\* input, and <name> is the name segments of the record joined by "@".
C11_PathEncoding ==
    ReturnedOk =>
        \A k \in DOMAIN result.value :
            LET r == result.value[k]
            IN  /\ Len(r.files) >= 1
                /\ r.origin = inputs[RecordInput(k)].origin
                /\ r.files[1].path =
                       BaseParent(k)
                           \o << <<"gen">>, OriginDir(k),
                                 JoinWith(r.name, "@") \o <<".", "erl">> >>

\* An Ok result with a nested Src module, a Test module and a Dependency
\* module, each at its encoded path.
C11_Witness ==
    /\ ReturnedOk
    /\ \E a, b, c \in DOMAIN result.value :
          /\ result.value[a].files[1].path =
                 << <<"gen">>, <<"src">>, <<"nested", "@", "one", ".", "erl">> >>
          /\ result.value[b].origin = "Test"
          /\ result.value[b].files[1].path =
                 << <<"gen">>, <<"test">>, <<"two", ".", "erl">> >>
          /\ result.value[c].origin = "Dependency"
          /\ result.value[c].files[1].path =
                 << <<"gen">>, <<"src">>, <<"one", ".", "erl">> >>

\* C12 (docs path): in every returned Ok result, a record of a module with
\* name segments s1..sn has at most two files, and when it has a second
\* file, that file is the docs file and its path is
\* parent(source_base_path)/gen/docs/s1/.../s(n-1)/sn.md: one directory
\* level per segment, never a flattened name.
C12_DocsPath ==
    ReturnedOk =>
        \A k \in DOMAIN result.value :
            LET r == result.value[k]
                n == Len(r.name)
            IN  /\ Len(r.files) <= 2
                /\ Len(r.files) = 2 =>
                      /\ n >= 1
                      /\ r.files[2].contents = <<"hey look some docs">>
                      /\ r.files[2].path =
                             BaseParent(k) \o << <<"gen">>, <<"docs">> >>
                                 \o SubSeq(r.name, 1, n - 1)
                                 \o << r.name[n] \o <<".", "md">> >>

\* An Ok result with the docs of a nested module and of a module of
\* another base directory.
C12_Witness ==
    /\ ReturnedOk
    /\ \E a, b \in DOMAIN result.value :
          /\ Len(result.value[a].files) = 2
          /\ result.value[a].files[2].path =
                 << <<"gen">>, <<"docs">>, <<"nested">>, <<"one", ".", "md">> >>
          /\ Len(result.value[b].files) = 2
          /\ result.value[b].files[2].path =
                 << <<"other">>, <<"gen">>, <<"docs">>, <<"one", ".", "md">> >>

(***************************************************************************)
(* Vocabulary of module identity                                           *)
(***************************************************************************)
\* The path of input k relative to its base path.
RelativePath(k) ==
    SubSeq(inputs[k].path, Len(inputs[k].source_base_path) + 1, Len(inputs[k].path))

\* A file name without its extension.
WithoutExtension(file) ==
    IF Len(file) >= 3 /\ file[Len(file) - 1] = "."
    THEN SubSeq(file, 1, Len(file) - 2)
    ELSE file

\* The name segments input k stands for: the directories of its relative
\* path, then its file name without extension.
ExpectedSegments(k) ==
    LET rel == RelativePath(k)
    IN  SubSeq(rel, 1, Len(rel) - 1) \o <<WithoutExtension(rel[Len(rel)])>>

ExpectedName(k) == JoinWith(ExpectedSegments(k), "/")

\* C13 (module identity): the k-th registered module is the k-th input; the
\* name it is registered under is the path of that input relative to its
\* base path, extension removed, components joined by "/"; the name
\* assigned to its parsed module is the list of those components, so that
\* name_string() of the module is the key it is registered under; and in a
\* returned Ok result every input has a record whose name is that list.
C13_ModuleIdentity ==
    /\ \A i \in DOMAIN deps_graph.nodes :
          /\ i \in InputIds
          /\ starts_with(inputs[i].path, inputs[i].source_base_path)
          /\ deps_graph.nodes[i] = ExpectedName(i)
          /\ deps_graph.nodes[i] \in DOMAIN indexes
          /\ indexes[deps_graph.nodes[i]] = i
          /\ i \in DOMAIN modules =>
                /\ modules[i].module.name = ExpectedSegments(i)
                /\ name_string(modules[i].module) = deps_graph.nodes[i]
    /\ cur.bound =>
          /\ cur.name = ExpectedSegments(cur.index)
          /\ cur.name_string = ExpectedName(cur.index)
    /\ ReturnedOk =>
          /\ Len(result.value) = Len(inputs)
          /\ \A k \in InputIds :
                \E j \in DOMAIN result.value :
                    /\ result.value[j].name = ExpectedSegments(k)
                    /\ JoinWith(result.value[j].name, "/") = ExpectedName(k)

\* An Ok result with the record of a nested module, named by its two
\* segments, next to the record of a module of another base directory.
C13_Witness ==
    /\ ReturnedOk
    /\ \E k \in InputIds :
          /\ inputs[k].path = << <<"src">>, <<"nested">>, <<"one", ".", "gleam">> >>
          /\ \E j \in DOMAIN result.value :
                result.value[j].name = << <<"nested">>, <<"one">> >>
    /\ \E k \in InputIds :
          /\ inputs[k].source_base_path = << <<"other">>, <<"src">> >>
          /\ ExpectedName(k) = <<"one">>

\* The progress line of input k.
Announcement(k) == <<"Compiling ">> \o ExpectedName(k)

Announced(k) == \E j \in DOMAIN stdout : stdout[j] = Announcement(k)

\* C14 (type error aborts the batch): a module whose body does not
\* type-check never gets past its type check, and when compile returns a
\* Type error, the error carries the path and the source of the input of
\* the module M the loop is at, whose body does not type-check; the
\* returned value holds no record; M itself and the modules scheduled after
\* it have no signature and no output, and the latter are still in the
\* module table, not announced.
C14_TypeErrorAborts ==
    /\ pc \in {"loop", "record", "emit", "returned"} =>
          \A k \in InputIds :
              (Announced(k) /\ ~inputs[k].src.typed) =>
                  /\ pc = "returned"
                  /\ result.kind = "Type"
                  /\ cur.bound
                  /\ cur.index = k
    /\ (pc = "returned" /\ result.kind = "Type") =>
          /\ cur.bound
          /\ result = [kind |-> "Type", path |-> inputs[cur.index].path,
                       src |-> inputs[cur.index].src]
          /\ ~inputs[cur.index].src.typed
          /\ stdout[Len(stdout)] = Announcement(cur.index)
          /\ cur.name_string \notin RecordedNames \cup CompiledNames
          /\ \A j \in DOMAIN order :
                /\ order[j] \in DOMAIN modules
                /\ ~Announced(order[j])
                /\ ExpectedName(order[j]) \notin RecordedNames \cup CompiledNames
          /\ Len(compiled_modules) + 1 + Len(order) = Len(inputs)

\* A Type error for a module scheduled between two others: one module is
\* already emitted, one is still in the module table.
C14_Witness ==
    /\ pc = "returned"
    /\ result.kind = "Type"
    /\ Len(compiled_modules) = 1
    /\ Len(order) = 1

(***************************************************************************)
(* Vocabulary of the determinism properties: the run another iteration     *)
(* order of the module table would have made on the same registered batch  *)
(***************************************************************************)
\* Registration is over and every input is registered.
AllRegistered == srcs = <<>> /\ Len(deps_graph.nodes) = Len(inputs)

\* The module table as registration left it is still at hand.
TableIntact == DOMAIN modules = DOMAIN deps_graph.nodes

\* The edge pass over the module table in the order vo, from the module at
\* the head of todo on: the value it returns, or NoResult and the graph.
RECURSIVE EdgePassFrom(_, _, _)
EdgePassFrom(vo, todo, g) ==
    IF todo = <<>> THEN [value |-> NoResult, graph |-> g]
    ELSE LET m == modules[Head(todo)]
             module_name == name_string(m.module)
             r == register_deps(dependencies(m.module), module_name,
                                indexes[module_name], modules[indexes[module_name]],
                                m.src, m.path, g)
         IN  IF r.status = "ok" THEN EdgePassFrom(vo, Tail(todo), r.graph)
             ELSE [value |-> IF r.value.kind = "UnknownImport"
                             THEN [r.value EXCEPT !.modules =
                                      [k \in DOMAIN vo |-> name_string(modules[vo[k]].module)]]
                             ELSE r.value,
                   graph |-> r.graph]

EdgePass(vo) == EdgePassFrom(vo, vo, [deps_graph EXCEPT !.edges = <<>>])

\* The error a run with iteration order vo returns before the compile
\* loop, NoResult if it returns none.
FailureUnder(vo) ==
    LET e == EdgePass(vo)
    IN  IF e.value # NoResult THEN e.value
        ELSE IF toposort(e.graph).ok THEN NoResult
        ELSE [kind |-> "DependencyCycle"]

\* C15 (deterministic failure): when compile returns an error for a
\* registered batch that holds both an import cycle and an unknown import,
\* a run with any other iteration order of the module table returns the
\* same error, kind and payload.
C15_DeterministicFailure ==
    (/\ pc = "returned"
     /\ result.kind \in {"UnknownImport", "SrcImportingTest", "DependencyCycle"}
     /\ AllRegistered
     /\ TableIntact
     /\ ImportCycle
     /\ ~AllResolve) =>
        \A vo \in IterationOrders(DOMAIN modules) : FailureUnder(vo) = result

\* The record compile is expected to return for input k.
ExpectedModule(k) == [parse(inputs[k].src) EXCEPT !.name = ExpectedSegments(k)]

ExpectedFiles(k) ==
    LET gen == Front(inputs[k].source_base_path) \o << <<"gen">> >>
        segments == ExpectedSegments(k)
        n == Len(segments)
        dir == IF inputs[k].origin = "Test" THEN <<"test">> ELSE <<"src">>
    IN  <<[path |-> gen \o <<dir, JoinWith(segments, "@") \o <<".", "erl">> >>,
           contents |-> erl_module(ExpectedModule(k))]>>
        \o (IF inputs[k].origin = "Src" /\ render_docs = "True"
            THEN <<[path |-> gen \o << <<"docs">> >> \o SubSeq(segments, 1, n - 1)
                                 \o << segments[n] \o <<".", "md">> >>,
                    contents |-> <<"hey look some docs">>]>>
            ELSE <<>>)

ExpectedRecord(k) ==
    [name |-> ExpectedSegments(k), origin |-> inputs[k].origin,
     files |-> ExpectedFiles(k), type_info |-> type_info_of(ExpectedModule(k))]

\* The edges a run with iteration order vo adds: module after module in
\* that order, import after import.
RECURSIVE EdgesUnder(_)
EdgesUnder(vo) ==
    IF vo = <<>> THEN <<>>
    ELSE [j \in DOMAIN inputs[Head(vo)].src.imports |->
             <<InputOfName(inputs[Head(vo)].src.imports[j]), Head(vo)>>]
         \o EdgesUnder(Tail(vo))

\* The schedule of a run with iteration order vo.
ScheduleUnder(vo) == toposort([deps_graph EXCEPT !.edges = EdgesUnder(vo)])

Position(seq, x) == CHOOSE j \in DOMAIN seq : seq[j] = x

\* The inputs of the returned records, in the order of the result.
ResultOrder == [j \in DOMAIN result.value |-> RecordInput(j)]

\* C16 (deterministic success): when compile returns Ok, the result holds
\* one record per input and each record is a function of its input and the
\* docs flag alone (name, origin, files, signature); a run with any other
\* iteration order of the module table is scheduled too, over the same
\* modules, so that it returns the same records, and both runs put every
\* module after the modules it depends on: the two lists differ at most in
\* the relative order of modules without dependency relation.
C16_DeterministicSuccess ==
    ReturnedOk =>
        /\ Len(result.value) = Len(inputs)
        /\ \A j \in DOMAIN result.value : result.value[j] = ExpectedRecord(ResultOrder[j])
        /\ \A a, b \in DOMAIN result.value : a # b => ResultOrder[a] # ResultOrder[b]
        /\ \A vo \in IterationOrders(InputIds) :
              LET other == ScheduleUnder(vo)
              IN  /\ other.ok
                  /\ {other.order[j] : j \in DOMAIN other.order} = InputIds
                  /\ Len(other.order) = Len(inputs)
                  /\ \A a, b \in InputIds :
                        a \in DependsOn(b) /\ a # b =>
                            /\ Position(other.order, a) < Position(other.order, b)
                            /\ Position(ResultOrder, a) < Position(ResultOrder, b)

\* An Ok result that another iteration order of the module table would
\* have returned in another order.
C16_Witness ==
    /\ ReturnedOk
    /\ deps_graph.edges = EdgesUnder(values_order)
    /\ \E vo \in IterationOrders(InputIds) : ScheduleUnder(vo).order # ResultOrder

\* A step keeps every key of the signature map and the value stored with it.
KeepsSignatures ==
    \A k \in DOMAIN modules_type_infos :
        /\ k \in DOMAIN modules_type_infos'
        /\ modules_type_infos'[k] = modules_type_infos[k]

\* The compile loop has finished: the next step is the output assembly.
LoopFinished == pc = "loop" /\ order = <<>>

\* C17 as stated (append-only during a batch): from the creation of the
\* signature map until compile returns, no step removes a key from it or
\* overwrites a value stored in it.
C17_Original == [][KeepsSignatures]_vars

\* C17 (append-only during the compile loop): until the compile loop has
\* finished, no step removes a key from the signature map or overwrites a
\* value stored in it, and a signature is only ever recorded under a key
\* the map does not hold yet; the output assembly then takes every
\* signature out of the map and into the record of its module, leaving
\* the map empty when compile returns Ok.
C17_AppendOnlyInLoop ==
    [][/\ ~LoopFinished => KeepsSignatures
       /\ pc = "record" => cur.name_string \notin DOMAIN modules_type_infos
       /\ (LoopFinished /\ pc' = "returned") =>
             /\ modules_type_infos' = EmptyMap
             /\ Len(result'.value) = Len(compiled_modules)
             /\ \A j \in DOMAIN compiled_modules :
                   result'.value[j].type_info =
                       modules_type_infos[compiled_modules[j].name_string]]_vars

\* An Ok result of three modules, their signatures moved out of the map.
C17_Witness ==
    /\ ReturnedOk
    /\ Len(result.value) = 3
    /\ Len(compiled_modules) = 3
    /\ modules_type_infos = EmptyMap

\* How many times input k has been announced, that is, handed to the type
\* checker or about to be.
TimesAnnounced(k) == Cardinality({j \in DOMAIN stdout : stdout[j] = Announcement(k)})

InLoop == pc \in {"loop", "announce", "infer", "record", "emit"}

\* C18 (single use of module records): during the compile loop the module
\* table holds exactly the modules still to be scheduled, each scheduled
\* once: a module leaves the table when its own iteration starts and is not
\* looked up again, so that the lookup of a scheduled module never fails;
\* a module that left the table has been announced and handed to the type
\* checker once, a module still in it never; when compile returns Ok the
\* table is empty and every module has been type-checked once.
C18_SingleUse ==
    /\ InLoop =>
          /\ \A a, b \in DOMAIN order : a # b => order[a] # order[b]
          /\ DOMAIN modules = {order[j] : j \in DOMAIN order}
          /\ cur.bound = (pc # "loop")
          /\ cur.bound => cur.index \notin DOMAIN modules
          /\ \A k \in InputIds :
                TimesAnnounced(k) =
                    IF k \in DOMAIN modules \/ (pc = "announce" /\ cur.index = k)
                    THEN 0 ELSE 1
    /\ ReturnedOk =>
          /\ modules = EmptyMap
          /\ \A k \in InputIds : TimesAnnounced(k) = 1
    /\ pc = "panicked" => result.message # "Unknown graph index"

\* An Ok result of three modules: the table is empty, each module was
\* announced once.
C18_Witness ==
    /\ ReturnedOk
    /\ Len(inputs) = 3
    /\ modules = EmptyMap
    /\ Len(stdout) = 3

\* C19 (output assembly): when the compile loop has finished, the signature
\* map holds one entry per accumulated output record, under the name string
\* of that record, and nothing else, so the lookup of the assembly never
\* fails; in the Ok result the k-th record is the k-th accumulated record
\* (name, origin, files) together with the signature recorded for the
\* module of that name, which is the signature of that module itself.
C19_OutputAssembly ==
    /\ LoopFinished =>
          /\ DOMAIN modules_type_infos = CompiledNames
          /\ Cardinality(DOMAIN modules_type_infos) = Len(compiled_modules)
    /\ pc = "panicked" => result.message # "merging module type info"
    /\ ReturnedOk =>
          /\ Len(result.value) = Len(compiled_modules)
          /\ \A k \in DOMAIN result.value :
                LET r == result.value[k]
                    out == compiled_modules[k]
                IN  /\ r.name = out.name
                    /\ r.origin = out.origin
                    /\ r.files = out.files
                    /\ DOMAIN r = {"name", "origin", "files", "type_info"}
                    /\ r.type_info = type_info_of(ExpectedModule(RecordInput(k)))
                    /\ r.type_info.name = r.name

\* An Ok result of a nested module and the two modules it imports, in the
\* order in which they were accumulated.
C19_Witness ==
    /\ ReturnedOk
    /\ Len(result.value) = 3
    /\ result.value[3].name = << <<"nested">>, <<"one">> >>
    /\ result.value[3].type_info.name = << <<"nested">>, <<"one">> >>
    /\ compiled_modules[3].name_string = <<"nested", "/", "one">>
    /\ Len(inputs[RecordInput(3)].src.imports) = 2

\* C20 (graph-table correspondence): during registration and the edge
\* pass, graph nodes, name-to-index lookup and module table correspond one
\* to one: the nodes carry pairwise distinct names, the lookup maps exactly
\* these names, each to the index of its node, the module table is keyed
\* by exactly the node indices, and the record under an index is that of a
\* module whose name_string() is the name of the node; hence none of the
\* lookups of the edge pass and of the compile loop ever fails.
C20_GraphTableCorrespondence ==
    /\ pc \in {"register", "edges"} =>
          /\ DOMAIN deps_graph.nodes = 1..Len(deps_graph.nodes)
          /\ DOMAIN modules = DOMAIN deps_graph.nodes
          /\ DOMAIN indexes = {deps_graph.nodes[i] : i \in DOMAIN deps_graph.nodes}
          /\ \A i, j \in DOMAIN deps_graph.nodes :
                i # j => deps_graph.nodes[i] # deps_graph.nodes[j]
          /\ \A i \in DOMAIN deps_graph.nodes :
                /\ indexes[deps_graph.nodes[i]] = i
                /\ name_string(modules[i].module) = deps_graph.nodes[i]
          /\ \A e \in DOMAIN deps_graph.edges :
                /\ deps_graph.edges[e][1] \in DOMAIN modules
                /\ deps_graph.edges[e][2] \in DOMAIN modules
          /\ pc = "edges" =>
                /\ \A k \in DOMAIN iter : iter[k] \in DOMAIN modules
                /\ Len(deps_graph.nodes) = Len(inputs)
    /\ pc = "panicked" =>
          result.message \notin {"Unable to find module index",
                                 "Unable to find module for index",
                                 "Unable to find module for dep index",
                                 "Unknown graph index"}

\* The edge pass is over for three modules and has added edges.
C20_Witness ==
    /\ pc = "edges"
    /\ iter = <<>>
    /\ Len(deps_graph.nodes) = 3
    /\ Len(deps_graph.edges) >= 2
    /\ Cardinality(DOMAIN indexes) = 3
    /\ Cardinality(DOMAIN modules) = 3

\* The topological sort is about to start.
SortStarts == pc = "edges" /\ iter = <<>>

\* How many edges lead from node a to node b.
EdgeCount(a, b) ==
    Cardinality({e \in DOMAIN deps_graph.edges : deps_graph.edges[e] = <<a, b>>})

\* How many times the module of node b declares an import of the module of
\* node a.
ImportCount(a, b) ==
    Cardinality({j \in DOMAIN dependencies(modules[b].module) :
                    dependencies(modules[b].module)[j].module = deps_graph.nodes[a]})

\* C21 (edges): whenever the topological sort starts, every name returned
\* by dependencies() of a registered module is the name of a node, and the
\* graph holds, for every declared import, one edge from the node of the
\* imported module to the node of the importer, and no other edge.
C21_EdgesAreImports ==
    SortStarts =>
        /\ \A b \in DOMAIN modules :
              \A j \in DOMAIN dependencies(modules[b].module) :
                  \E a \in DOMAIN deps_graph.nodes :
                      deps_graph.nodes[a] = dependencies(modules[b].module)[j].module
        /\ \A e \in DOMAIN deps_graph.edges :
              /\ deps_graph.edges[e][1] \in DOMAIN deps_graph.nodes
              /\ deps_graph.edges[e][2] \in DOMAIN deps_graph.nodes
        /\ \A a, b \in DOMAIN deps_graph.nodes : EdgeCount(a, b) = ImportCount(a, b)

\* The sort starts on a graph of three modules with three imports, one
\* module importing the two others.
C21_Witness ==
    /\ SortStarts
    /\ Len(deps_graph.nodes) = 3
    /\ Len(deps_graph.edges) = 3
    /\ \E b \in DOMAIN modules : Len(dependencies(modules[b].module)) = 2

\* The signature map and the accumulated outputs are left alone by a step.
KeepsOutputs ==
    /\ modules_type_infos' = modules_type_infos
    /\ compiled_modules' = compiled_modules

\* C22 (per-module step order): for each module, the compile loop goes
\* through remove-from-table, announce, type-check, record signature, emit
\* (target source first, docs second when there are docs, then accumulate),
\* in this order and without skipping a step, except that a failed
\* type-check ends the call (as does the panic of a base path without
\* parent, right after the type-check); outside the output assembly the signature map
\* is written by the record step alone, which adds the one key of the
\* module just type-checked with success; so whenever a module is about to
\* be type-checked the map holds one signature per module type-checked
\* before it, and a failed type-check writes nothing.
C22_StepOrder ==
    [][/\ (pc = "loop" /\ order # <<>>) =>
             /\ pc' \in {"announce", "panicked"}
             /\ KeepsOutputs /\ stdout' = stdout
             /\ pc' = "announce" =>
                   /\ Head(order) \in DOMAIN modules
                   /\ Head(order) \notin DOMAIN modules'
                   /\ cur'.index = Head(order)
       /\ pc = "announce" =>
             /\ pc' = "infer"
             /\ KeepsOutputs /\ modules' = modules /\ cur' = cur
             /\ stdout' = Append(stdout, Announcement(cur.index))
       /\ pc = "infer" =>
             /\ pc' \in {"record", "returned", "panicked"}
             /\ KeepsOutputs /\ modules' = modules /\ stdout' = stdout
             /\ Len(stdout) = Cardinality(DOMAIN modules_type_infos) + 1
             /\ inputs[cur.index].src.typed => pc' # "returned"
             /\ ~inputs[cur.index].src.typed =>
                   /\ pc' = "returned"
                   /\ result'.kind = "Type"
       /\ pc = "record" =>
             /\ pc' = "emit"
             /\ inputs[cur.index].src.typed
             /\ cur.name_string \notin DOMAIN modules_type_infos
             /\ DOMAIN modules_type_infos' = DOMAIN modules_type_infos \cup {cur.name_string}
             /\ modules_type_infos'[cur.name_string] = cur.type_info
             /\ KeepsSignatures
             /\ compiled_modules' = compiled_modules
             /\ modules' = modules /\ stdout' = stdout /\ cur' = cur
       /\ pc = "emit" =>
             /\ pc' = "loop"
             /\ modules_type_infos' = modules_type_infos
             /\ modules' = modules /\ stdout' = stdout
             /\ Len(compiled_modules') = Len(compiled_modules) + 1
             /\ SubSeq(compiled_modules', 1, Len(compiled_modules)) = compiled_modules
             /\ LET out == compiled_modules'[Len(compiled_modules')]
                IN  /\ out.name = cur.name
                    /\ out.files[1].path = cur.erl_path
                    /\ Len(out.files) = 2 =>
                          out.files[2].contents = <<"hey look some docs">>
       /\ modules_type_infos' # modules_type_infos => (pc = "record" \/ LoopFinished)
      ]_vars

\* The second module of a batch of three has its signature recorded and is
\* about to be emitted.
C22_Witness ==
    /\ pc = "emit"
    /\ Len(stdout) = 2
    /\ Cardinality(DOMAIN modules_type_infos) = 2
    /\ Len(compiled_modules) = 1
    /\ Len(order) = 1

(***************************************************************************)
(* Vocabulary of input-order independence: what a batch is, read off the   *)
(* batch alone                                                             *)
(***************************************************************************)
ImportsOf(batch, k) == {batch[k].src.imports[j] : j \in DOMAIN batch[k].src.imports}

\* The inputs of the batch reachable from those in S along imports.
RECURSIVE ImportClosureIn(_, _, _)
ImportClosureIn(batch, names, S) ==
    LET T == S \cup {a \in DOMAIN batch : \E b \in S : names[a] \in ImportsOf(batch, b)}
    IN  IF T = S THEN S ELSE ImportClosureIn(batch, names, T)

\* The batch has no defect: every input parses and type-checks, every
\* import names a module of the batch, no Src module imports a Test module,
\* no module depends on itself, every base path has a parent.
WellFormed(batch) ==
    LET names == BatchNames(batch)
    IN  /\ \A k \in DOMAIN batch :
              /\ batch[k].src.parses
              /\ batch[k].src.typed
              /\ has_parent(batch[k].source_base_path)
              /\ ImportsOf(batch, k) \subseteq {names[j] : j \in DOMAIN batch}
        /\ \A a, b \in DOMAIN batch :
              ~(/\ batch[a].origin = "Src"
                /\ batch[b].origin = "Test"
                /\ names[b] \in ImportsOf(batch, a))
        /\ \A k \in DOMAIN batch :
              k \notin ImportClosureIn(batch, names,
                           {a \in DOMAIN batch : names[a] \in ImportsOf(batch, k)})

\* The record of an input, as the driver builds it.
RecordOf(input) ==
    LET name == module_name_of(derive_name(input.source_base_path, input.path))
        module == [parse(input.src) EXCEPT !.name = name]
        c == [erl_path |-> erl_path(input.source_base_path, input.origin, name),
              module |-> module, origin |-> input.origin, name |-> name,
              source_base_path |-> input.source_base_path]
    IN  [name |-> name, origin |-> input.origin,
         files |-> output_files(c, render_docs), type_info |-> type_info_of(module)]

RecordsOf(batch) == {RecordOf(batch[k]) : k \in DOMAIN batch}

Permuted(batch, p) == [k \in DOMAIN batch |-> batch[p[k]]]

\* C23 (input order does not affect import resolution): a call on inputs
\* with pairwise distinct names ends in Ok exactly if the batch has no
\* defect, wherever in the list the imported modules stand, and then
\* returns the records of its inputs; every permutation of such a list is
\* without defect too and has the same set of records, so compile returns
\* Ok for it as well, with the same set of records.
C23_InputOrderIndependence ==
    (pc \in {"returned", "panicked"} /\ UniqueNames) =>
        /\ ReturnedOk = WellFormed(inputs)
        /\ ReturnedOk =>
              /\ {result.value[j] : j \in DOMAIN result.value} = RecordsOf(inputs)
              /\ \A p \in IterationOrders(InputIds) :
                    /\ WellFormed(Permuted(inputs, p))
                    /\ RecordsOf(Permuted(inputs, p)) = RecordsOf(inputs)

\* An Ok result for a batch whose first input imports its last input and
\* whose last input imports the one in between.
C23_Witness ==
    /\ ReturnedOk
    /\ Len(inputs) = 3
    /\ Imports(1, 3)
    /\ Imports(3, 2)

\* The schedule the topological sort gave for the graph of this call.
Scheduled == toposort(deps_graph).order

\* C24 (progress announcements): no line is announced twice; while a module
\* is being type-checked, the last line announced is "Compiling <name>" of
\* that module; on an Ok result the lines are "Compiling <name>" for the
\* names of the result, in result order; on a Type error for module M the
\* lines are those of the modules scheduled up to and including M, in
\* schedule order.
C24_ProgressAnnouncements ==
    /\ \A a, b \in DOMAIN stdout : a # b => stdout[a] # stdout[b]
    /\ pc = "infer" =>
          /\ stdout # <<>>
          /\ stdout[Len(stdout)] = <<"Compiling ">> \o cur.name_string
          /\ cur.name_string = deps_graph.nodes[cur.index]
    /\ ReturnedOk =>
          stdout = [k \in DOMAIN result.value |-> <<"Compiling ">> \o ResultName(k)]
    /\ (pc = "returned" /\ result.kind = "Type") =>
          LET m == Len(stdout)
          IN  /\ m >= 1
              /\ m <= Len(Scheduled)
              /\ Scheduled[m] = cur.index
              /\ result.path = inputs[Scheduled[m]].path
              /\ stdout = [k \in 1..m |-> <<"Compiling ">> \o deps_graph.nodes[Scheduled[k]]]
              /\ order = SubSeq(Scheduled, m + 1, Len(Scheduled))

\* A Type error on the last of three scheduled modules, a nested one among
\* them: three lines were announced.
C24_Witness ==
    /\ pc = "returned"
    /\ result.kind = "Type"
    /\ Len(stdout) = 3
    /\ order = <<>>
    /\ \E k \in DOMAIN stdout : stdout[k] = <<"Compiling ", "nested", "/", "one">>

\* No input of the batch declares an import.
NoImports == \A k \in InputIds : inputs[k].src.imports = <<>>

\* C25 (tie-breaking): a call on a batch without defect in which no module
\* imports any module returns Ok, and the records stand in the reverse of
\* the input order: the k-th record is the record of the k-th input from
\* the end.
C25_ReverseInputOrder ==
    (/\ pc \in {"returned", "panicked"}
     /\ NoImports
     /\ UniqueNames
     /\ WellFormed(inputs)) =>
        /\ ReturnedOk
        /\ Len(result.value) = Len(inputs)
        /\ \A k \in DOMAIN result.value :
              /\ ResultName(k) = ExpectedName(Len(inputs) + 1 - k)
              /\ result.value[k] = ExpectedRecord(Len(inputs) + 1 - k)

\* Three unrelated modules one, two, nested/one come back as nested/one,
\* two, one.
C25_Witness ==
    /\ ReturnedOk
    /\ NoImports
    /\ Len(inputs) = 3
    /\ ExpectedName(1) = <<"one">>
    /\ ExpectedName(2) = <<"two">>
    /\ ResultName(1) = <<"nested", "/", "one">>
    /\ ResultName(2) = <<"two">>
    /\ ResultName(3) = <<"one">>

\* Input k has a registration defect: it does not parse, or it repeats the
\* name of an earlier input.
Offending(k) == ~inputs[k].src.parses \/ RepeatsAt(BatchNames(inputs), k)

HasDefect == \E k \in InputIds : Offending(k)

FirstOffending == CHOOSE k \in InputIds : Offending(k) /\ \A l \in 1..(k - 1) : ~Offending(l)

\* No import has been examined and no module scheduled or announced.
NothingExamined ==
    /\ iter = <<>>
    /\ values_order = <<>>
    /\ deps_graph.edges = <<>>
    /\ order = <<>>
    /\ stdout = <<>>

\* C26 (error priority by phase): a call on a batch with a registration
\* defect returns the error of the earliest offending input, before any
\* import is examined: Parse if that input does not parse, whether or not
\* it also repeats a name, else DuplicateModule with that input as second;
\* so such a batch never yields UnknownImport, SrcImportingTest,
\* DependencyCycle or Type. A call on a batch without registration defect
\* that has an unknown import or a Src module importing a Test module
\* returns UnknownImport or SrcImportingTest, never DependencyCycle.
C26_ErrorPriority ==
    pc \in {"returned", "panicked"} =>
        /\ HasDefect =>
              LET k == FirstOffending
              IN  /\ pc = "returned"
                  /\ NothingExamined
                  /\ result.kind \in {"Parse", "DuplicateModule"}
                  /\ ~inputs[k].src.parses =>
                        result = [kind |-> "Parse", path |-> inputs[k].path,
                                  src |-> inputs[k].src]
                  /\ inputs[k].src.parses =>
                        /\ result.kind = "DuplicateModule"
                        /\ result.second = inputs[k].path
                        /\ result.module = BatchNames(inputs)[k]
                        /\ \E i \in 1..(k - 1) :
                              /\ BatchNames(inputs)[i] = BatchNames(inputs)[k]
                              /\ result.first = inputs[i].path
        /\ (~HasDefect /\ (~AllResolve \/ SomeSrcImportsTest)) =>
              /\ pc = "returned"
              /\ result.kind \in {"UnknownImport", "SrcImportingTest"}
              /\ order = <<>>
              /\ stdout = <<>>

\* A Parse error for an input that repeats the name of an earlier input, in
\* a batch that has an unknown import as well.
C26_Witness ==
    /\ pc = "returned"
    /\ result.kind = "Parse"
    /\ ~AllResolve
    /\ \E k \in InputIds :
          /\ result.path = inputs[k].path
          /\ ~inputs[k].src.parses
          /\ RepeatsAt(BatchNames(inputs), k)

\* The output files of an Ok result: (record, file) positions.
OutputFiles ==
    {kf \in (DOMAIN result.value) \X (1..2) : kf[2] <= Len(result.value[kf[1]].files)}

PathOf(kf) == result.value[kf[1]].files[kf[2]].path

\* Every name segment of the result is one identifier.
PlainSegments ==
    \A k \in DOMAIN result.value :
        \A s \in DOMAIN result.value[k].name :
            /\ Len(result.value[k].name[s]) = 1
            /\ result.value[k].name[s][1] \notin {".", "/", "@"}

OneBasePath == \A a, b \in InputIds : inputs[a].source_base_path = inputs[b].source_base_path

\* C27 (no output collisions): in every Ok result whose name segments are
\* plain identifiers and whose inputs share one source base path, the paths
\* of all output files of all records, target sources and docs together,
\* are pairwise distinct.
C27_NoOutputCollisions ==
    (ReturnedOk /\ OneBasePath /\ PlainSegments) =>
        \A x, y \in OutputFiles : x # y => PathOf(x) # PathOf(y)

\* An Ok result with docs for the modules one, two and nested/one of one
\* base path: six files.
C27_Witness ==
    /\ ReturnedOk
    /\ OneBasePath
    /\ PlainSegments
    /\ Cardinality(OutputFiles) = 6
    /\ \E a, b \in DOMAIN result.value :
          /\ ResultName(a) = <<"one">>
          /\ ResultName(b) = <<"nested", "/", "one">>

====
